---- MODULE Spec2Model ----
(***************************************************************************)
(* Model of the survey server of public/project/main.js: the in-memory     *)
(* store, the response validator, the registry routes and the aggregator.  *)
(*                                                                         *)
(* JSON values are tagged records; a JavaScript string is the sequence of  *)
(* its characters, so that length, emptiness, parseInt and String() are    *)
(* computed as the code computes them.                                     *)
(***************************************************************************)
EXTENDS Integers, Sequences, FiniteSets, TLC

VARIABLES surveys, nextId, currentSurveyId, currentSurveyAdminToken, now, req, res

vars == <<surveys, nextId, currentSurveyId, currentSurveyAdminToken, now, req, res>>

(* ------------------------------ bounds --------------------------------- *)

\* most responses a survey stores before submissions stop being generated
MaxResponses == 2
\* largest reading of the clock (Date.now)
MaxClock == 1
\* most responses a survey stores in the results specification
MaxResultResponses == 3
(* ---------------------------- JSON values ------------------------------ *)

Undefined == [k |-> "undefined"]
Null == [k |-> "null"]
Str(s) == [k |-> "string", s |-> s]
Num(n) == [k |-> "number", n |-> n]
Arr(a) == [k |-> "array", a |-> a]

IsStr(v) == v.k = "string"
IsNum(v) == v.k = "number"
IsArr(v) == v.k = "array"

\* JavaScript ToBoolean: undefined, null, "" and 0 are falsy; every array
\* (the empty one included) and every other string or number is truthy.
Truthy(v) ==
  CASE v.k = "undefined" -> FALSE
    [] v.k = "null" -> FALSE
    [] v.k = "string" -> Len(v.s) > 0
    [] v.k = "number" -> v.n # 0
    [] v.k = "array" -> TRUE

\* a || b
OrElse(a, b) == IF Truthy(a) THEN a ELSE b

\* obj[key] on a JSON object held as a function from keys to values
Get(obj, key) == IF key \in DOMAIN obj THEN obj[key] ELSE Undefined

Digits == <<"0", "1", "2", "3", "4", "5", "6", "7", "8", "9">>

IsDigit(c) == \E i \in 1..10 : Digits[i] = c

DigitVal(c) == (CHOOSE i \in 1..10 : Digits[i] = c) - 1

RECURSIVE NatToChars(_)
NatToChars(n) ==
  IF n < 10 THEN <<Digits[n + 1]>>
  ELSE NatToChars(n \div 10) \o <<Digits[(n % 10) + 1]>>

\* Number.prototype.toString for an integer
IntToChars(n) == IF n < 0 THEN <<"-">> \o NatToChars(0 - n) ELSE NatToChars(n)

RECURSIVE JoinChars(_, _)
\* String(value) of the values an answer holds; an array is its elements
\* joined with sep (Array.prototype.join prints null and undefined as "")
ToChars(v, sep) ==
  CASE v.k = "undefined" -> <<"u", "n", "d", "e", "f", "i", "n", "e", "d">>
    [] v.k = "null" -> <<"n", "u", "l", "l">>
    [] v.k = "string" -> v.s
    [] v.k = "number" -> IntToChars(v.n)
    [] v.k = "array" -> JoinChars(v.a, sep)
JoinChars(a, sep) ==
  IF Len(a) = 0 THEN <<>>
  ELSE LET h == IF Head(a).k \in {"undefined", "null"} THEN <<>>
                ELSE ToChars(Head(a), <<",">>)
       IN IF Len(a) = 1 THEN h ELSE h \o sep \o JoinChars(Tail(a), sep)

IsSpace(c) == c \in {" ", "\t", "\n"}

RECURSIVE SkipSpace(_)
SkipSpace(s) == IF Len(s) > 0 /\ IsSpace(Head(s)) THEN SkipSpace(Tail(s)) ELSE s

RECURSIVE DigitPrefix(_)
DigitPrefix(s) ==
  IF Len(s) > 0 /\ IsDigit(Head(s)) THEN <<Head(s)>> \o DigitPrefix(Tail(s)) ELSE <<>>

RECURSIVE DigitsVal(_, _)
DigitsVal(s, acc) ==
  IF Len(s) = 0 THEN acc ELSE DigitsVal(Tail(s), acc * 10 + DigitVal(Head(s)))

NaN == [k |-> "NaN"]

\* parseInt(value): String(value), leading white space skipped, an optional
\* sign, then the longest run of decimal digits; NaN when that run is empty.
\* Trailing characters are ignored.
parseInt(v) ==
  LET s == SkipSpace(ToChars(v, <<",">>))
      neg == Len(s) > 0 /\ Head(s) = "-"
      body == IF Len(s) > 0 /\ Head(s) \in {"-", "+"} THEN Tail(s) ELSE s
      ds == DigitPrefix(body)
  IN IF Len(ds) = 0 THEN NaN
     ELSE Num(IF neg THEN 0 - DigitsVal(ds, 0) ELSE DigitsVal(ds, 0))

isNaN(v) == v.k = "NaN"

(* --------------------------- program constants ------------------------- *)

\* longest accepted text answer
MaxTextLength == 5000

(* ------------------------------ validator ------------------------------ *)

\* answer.length: defined for strings and arrays, undefined otherwise
HasLength(v) == v.k \in {"string", "array"}

Length(v) == IF v.k = "string" THEN Len(v.s) ELSE Len(v.a)

\* the id a question gets when it supplies none: `q_${idx}`, idx from 0
DefaultQuestionId(idx) == Str(<<"q", "_">> \o IntToChars(idx))

\* questions.map((q, idx) => ({...q, id: q.id || `q_${idx}`}))
AssignQuestionIds(qs) ==
  [i \in 1..Len(qs) |-> [qs[i] EXCEPT !.id = OrElse(qs[i].id, DefaultQuestionId(i - 1))]]

\* question.options.map(opt => opt.id)
validOptions(question) == [i \in 1..Len(question.options) |-> question.options[i].id]

\* Array.prototype.includes on a list of primitives: an array operand is
\* compared by reference and is never found
includes(list, a) == a.k # "array" /\ \E i \in 1..Len(list) : list[i] = a

ErrRequired(q) == [kind |-> "is required", text |-> q.text]
ErrNotText(q) == [kind |-> "must be text", text |-> q.text]
ErrTooLong(q) == [kind |-> "response too long (max 5000 chars)", text |-> q.text]
ErrOption(q) == [kind |-> "Invalid option selected for", text |-> q.text]
ErrScale(q) ==
  [kind |-> "Scale answer must be between", text |-> q.text,
   min |-> q.minValue, max |-> q.maxValue]

\* the required test of the validator
RequiredMissing(question, answer) == question.required /\ ~Truthy(answer)

\* the errors one question contributes, in the order they are pushed
QuestionErrors(question, answer) ==
  IF RequiredMissing(question, answer) THEN <<ErrRequired(question)>>
  ELSE CASE question.type = "text" ->
              (IF Truthy(answer) /\ ~IsStr(answer) THEN <<ErrNotText(question)>> ELSE <<>>)
              \o (IF Truthy(answer) /\ HasLength(answer) /\ Length(answer) > MaxTextLength
                  THEN <<ErrTooLong(question)>> ELSE <<>>)
         [] question.type \in {"multiple-choice", "single-choice"} ->
              IF Truthy(answer)
              THEN IF IsArr(answer)
                   THEN IF \A i \in 1..Len(answer.a) :
                             includes(validOptions(question), answer.a[i])
                        THEN <<>> ELSE <<ErrOption(question)>>
                   ELSE IF ~includes(validOptions(question), answer)
                        THEN <<ErrOption(question)>> ELSE <<>>
              ELSE <<>>
         [] question.type = "scale" ->
              IF Truthy(answer)
              THEN LET num == parseInt(answer)
                   IN IF isNaN(num) \/ num.n < question.minValue.n
                         \/ num.n > question.maxValue.n
                      THEN <<ErrScale(question)>> ELSE <<>>
              ELSE <<>>
         [] OTHER -> <<>>

RECURSIVE ValidateFrom(_, _, _)
ValidateFrom(questions, response, i) ==
  IF i > Len(questions) THEN <<>>
  ELSE QuestionErrors(questions[i], Get(response, questions[i].id.s))
       \o ValidateFrom(questions, response, i + 1)

validateResponse(survey, response) == ValidateFrom(survey.questions, response, 1)

(* ------------------------------- store --------------------------------- *)

\* `survey_${n}`
SurveyIdOf(n) == Str(<<"s", "u", "r", "v", "e", "y", "_">> \o IntToChars(n))

\* `response_${Date.now()}_${random}`
ResponseIdOf(ts, rnd) ==
  Str(<<"r", "e", "s", "p", "o", "n", "s", "e", "_">> \o IntToChars(ts) \o <<"_">> \o rnd)

\* a reading of the clock that no survey field holds (updatedAt before the
\* first update); the clock itself starts at 0
NoTime == 0 - 1

\* store.surveys[id]
HasSurvey(id) == id \in DOMAIN surveys

\* store.surveys[surveyId] = survey
PutSurvey(id, survey) ==
  [i \in DOMAIN surveys \cup {id} |-> IF i = id THEN survey ELSE surveys[i]]

\* the survey object both initializeSurvey and the create route build
NewSurvey(id, title, description, questions, token, ts) ==
  [id |-> id,
   title |-> title,
   description |-> OrElse(description, Str(<<>>)),
   questions |-> AssignQuestionIds(questions),
   responses |-> <<>>,
   createdAt |-> ts,
   adminToken |-> token,
   updatedAt |-> NoTime]

\* !title || !questions || !Array.isArray(questions) || questions.length === 0
InvalidSurveyData(title, questions) ==
  \/ ~Truthy(title)
  \/ ~Truthy(questions)
  \/ ~IsArr(questions)
  \/ Len(questions.a) = 0

\* variant: the create route without its already-active test
SurveyActiveNever == FALSE

\* app.locals.currentSurveyId is set
SurveyActive == Truthy(currentSurveyId)

\* variant: the token is compared only when one is supplied
TokenMismatchIfSupplied(token, survey) == Truthy(token) /\ token # survey.adminToken

\* req.query.token !== survey.adminToken
TokenMismatch(token, survey) == token # survey.adminToken

\* variant: a single violation is let through
HasSeveralErrors(errors) == Len(errors) > 1

\* errors.length > 0
HasErrors(errors) == Len(errors) > 0

\* variant: unshift instead of push
UnshiftResponse(responses, response) == <<response>> \o responses

\* survey.responses.push(response)
PushResponse(responses, response) == Append(responses, response)

\* variant: the update keeps the questions as sent, ids not assigned
UpdatedSurveyRawQuestions(survey, title, description, questions, ts) ==
  [survey EXCEPT !.title = title,
                 !.description = OrElse(description, Str(<<>>)),
                 !.questions = questions,
                 !.updatedAt = ts]

\* variant: the update issues a new admin token
UpdatedSurveyNewToken(survey, title, description, questions, ts) ==
  [survey EXCEPT !.title = title,
                 !.description = OrElse(description, Str(<<>>)),
                 !.questions = AssignQuestionIds(questions),
                 !.updatedAt = ts,
                 !.adminToken = Str(<<"k", "2">>)]

\* the assignments of the update route to the stored survey
UpdatedSurvey(survey, title, description, questions, ts) ==
  [survey EXCEPT !.title = title,
                 !.description = OrElse(description, Str(<<>>)),
                 !.questions = AssignQuestionIds(questions),
                 !.updatedAt = ts]

\* the clock moves between requests
Tick ==
  /\ now < MaxClock
  /\ now' = now + 1
  /\ UNCHANGED <<surveys, nextId, currentSurveyId, currentSurveyAdminToken, req, res>>

\* POST /api/surveys
CreateSurvey(title, description, questions, token) ==
  /\ req' = [op |-> "createSurvey", title |-> title, description |-> description,
             questions |-> questions]
  /\ IF SurveyActive
     THEN /\ res' = [status |-> 409,
                     body |-> [error |-> "A survey is already active in this environment",
                               surveyId |-> currentSurveyId]]
          /\ UNCHANGED <<surveys, nextId, currentSurveyId, currentSurveyAdminToken, now>>
     ELSE IF InvalidSurveyData(title, questions)
     THEN /\ res' = [status |-> 400, body |-> [error |-> "Invalid survey data"]]
          /\ UNCHANGED <<surveys, nextId, currentSurveyId, currentSurveyAdminToken, now>>
     ELSE LET surveyId == SurveyIdOf(nextId)
              survey == NewSurvey(surveyId, title, description, questions.a, token, now)
          IN /\ nextId' = nextId + 1
             /\ surveys' = PutSurvey(surveyId.s, survey)
             /\ currentSurveyId' = surveyId
             /\ currentSurveyAdminToken' = survey.adminToken
             /\ res' = [status |-> 200,
                        body |-> [id |-> surveyId, adminToken |-> survey.adminToken,
                                  clientUrl |-> <<"/survey/", surveyId>>,
                                  adminUrl |-> <<"/admin/", surveyId, "?token=",
                                                 survey.adminToken>>]]
             /\ UNCHANGED now

\* PUT /api/surveys/:surveyId
UpdateSurvey(surveyId, token, title, description, questions) ==
  /\ req' = [op |-> "updateSurvey", surveyId |-> surveyId, token |-> token,
             title |-> title, description |-> description, questions |-> questions]
  /\ UNCHANGED <<nextId, currentSurveyId, currentSurveyAdminToken, now>>
  /\ IF ~HasSurvey(surveyId)
     THEN /\ res' = [status |-> 404, body |-> [error |-> "Survey not found"]]
          /\ UNCHANGED surveys
     ELSE IF TokenMismatch(token, surveys[surveyId])
     THEN /\ res' = [status |-> 403, body |-> [error |-> "Unauthorized"]]
          /\ UNCHANGED surveys
     ELSE IF InvalidSurveyData(title, questions)
     THEN /\ res' = [status |-> 400, body |-> [error |-> "Invalid survey data"]]
          /\ UNCHANGED surveys
     ELSE LET survey == UpdatedSurvey(surveys[surveyId], title, description,
                                      questions.a, now)
          IN /\ surveys' = [surveys EXCEPT ![surveyId] = survey]
             /\ res' = [status |-> 200,
                        body |-> [success |-> TRUE,
                                  message |-> "Survey updated successfully",
                                  survey |-> [id |-> survey.id, title |-> survey.title,
                                              description |-> survey.description,
                                              questions |-> survey.questions]]]

\* GET /api/surveys/:surveyId
GetSurvey(surveyId) ==
  /\ req' = [op |-> "getPublicView", surveyId |-> surveyId]
  /\ UNCHANGED <<surveys, nextId, currentSurveyId, currentSurveyAdminToken, now>>
  /\ IF ~HasSurvey(surveyId)
     THEN res' = [status |-> 404, body |-> [error |-> "Survey not found"]]
     ELSE LET survey == surveys[surveyId]
          IN res' = [status |-> 200,
                     body |-> [id |-> survey.id, title |-> survey.title,
                               description |-> survey.description,
                               questions |-> survey.questions,
                               createdAt |-> survey.createdAt,
                               updatedAt |-> survey.updatedAt]]

\* GET /api/surveys/:surveyId/admin
GetAdmin(surveyId, token) ==
  /\ req' = [op |-> "getAdminView", surveyId |-> surveyId, token |-> token]
  /\ UNCHANGED <<surveys, nextId, currentSurveyId, currentSurveyAdminToken, now>>
  /\ IF ~HasSurvey(surveyId)
     THEN res' = [status |-> 404, body |-> [error |-> "Survey not found"]]
     ELSE IF TokenMismatch(token, surveys[surveyId])
     THEN res' = [status |-> 403, body |-> [error |-> "Unauthorized"]]
     ELSE res' = [status |-> 200, body |-> surveys[surveyId]]

\* POST /api/surveys/:surveyId/responses, on a store that holds at most cap
\* responses per survey
SubmitResponseWithin(surveyId, body, rnd, cap) ==
  /\ req' = [op |-> "submitResponse", surveyId |-> surveyId, body |-> body]
  /\ UNCHANGED <<nextId, currentSurveyId, currentSurveyAdminToken, now>>
  /\ IF ~HasSurvey(surveyId)
     THEN /\ res' = [status |-> 404, body |-> [error |-> "Survey not found"]]
          /\ UNCHANGED surveys
     ELSE LET survey == surveys[surveyId]
              errors == validateResponse(survey, body)
              response == [id |-> ResponseIdOf(now, rnd), data |-> body,
                           submittedAt |-> now]
          IN IF HasErrors(errors)
             THEN /\ res' = [status |-> 400, body |-> [errors |-> errors]]
                  /\ UNCHANGED surveys
             ELSE /\ Len(survey.responses) < cap
                  /\ surveys' = [surveys EXCEPT
                                   ![surveyId].responses = PushResponse(@, response)]
                  /\ res' = [status |-> 200,
                             body |-> [success |-> TRUE, responseId |-> response.id]]

\* POST /api/surveys/:surveyId/responses
SubmitResponse(surveyId, body, rnd) ==
  SubmitResponseWithin(surveyId, body, rnd, MaxResponses)

(* ----------------------------- aggregator ------------------------------ *)

RECURSIVE FilterSeq(_, _)
FilterSeq(seq, keep) ==
  IF Len(seq) = 0 THEN <<>>
  ELSE (IF Head(seq) \in keep THEN <<Head(seq)>> ELSE <<>>) \o FilterSeq(Tail(seq), keep)

\* survey.responses.map(r => r.data[question.id])
AnswersOf(survey, question) ==
  [i \in 1..Len(survey.responses) |-> Get(survey.responses[i].data, question.id.s)]

\* .filter(Boolean)
TruthyOnly(seq) == FilterSeq(seq, {v \in {seq[i] : i \in 1..Len(seq)} : Truthy(v)})

RECURSIVE CountIn(_, _)
\* how often the forEach over an array answer increments the count of an
\* option: optionCounts[a] looks the element up by its string form
CountIn(a, optId) ==
  IF Len(a) = 0 THEN 0
  ELSE (IF ToChars(Head(a), <<",">>) = optId.s THEN 1 ELSE 0) + CountIn(Tail(a), optId)

\* the increments one stored answer gives to one declared option
AnswerCount(answer, optId) ==
  IF ~Truthy(answer) THEN 0
  ELSE IF IsArr(answer) THEN CountIn(answer.a, optId)
  ELSE IF ToChars(answer, <<",">>) = optId.s THEN 1 ELSE 0

RECURSIVE SumCounts(_, _)
SumCounts(answers, optId) ==
  IF Len(answers) = 0 THEN 0
  ELSE AnswerCount(Head(answers), optId) + SumCounts(Tail(answers), optId)

\* one entry per declared option, in declaration order (option ids are
\* distinct within a question)
OptionResults(survey, question) ==
  [i \in 1..Len(question.options) |->
     [id |-> question.options[i].id, label |-> question.options[i].label,
      count |-> SumCounts(AnswersOf(survey, question), question.options[i].id)]]

\* .map(r => parseInt(r.data[question.id])).filter(v => !isNaN(v))
ScaleValues(survey, question) ==
  LET parsed == [i \in 1..Len(survey.responses) |->
                   parseInt(AnswersOf(survey, question)[i])]
  IN FilterSeq(parsed, {v \in {parsed[i] : i \in 1..Len(parsed)} : ~isNaN(v)})

RECURSIVE SumNums(_)
SumNums(seq) == IF Len(seq) = 0 THEN 0 ELSE Head(seq).n + SumNums(Tail(seq))

\* variant: the quotient cut off after the second decimal
toFixed2Truncated(sum, count) ==
  LET mag == IF sum < 0 THEN 0 - sum ELSE sum
      h == (100 * mag) \div count
      frac == h % 100
  IN Str((IF sum < 0 /\ h > 0 THEN <<"-">> ELSE <<>>)
         \o NatToChars(h \div 100) \o <<".">>
         \o <<Digits[(frac \div 10) + 1], Digits[(frac % 10) + 1]>>)

\* (sum / count).toFixed(2): the quotient rounded to the nearest hundredth,
\* printed with exactly two decimals
toFixed2(sum, count) ==
  LET mag == IF sum < 0 THEN 0 - sum ELSE sum
      h == (200 * mag + count) \div (2 * count)
      frac == h % 100
  IN Str((IF sum < 0 /\ h > 0 THEN <<"-">> ELSE <<>>)
         \o NatToChars(h \div 100) \o <<".">>
         \o <<Digits[(frac \div 10) + 1], Digits[(frac % 10) + 1]>>)

ScaleAverage(values) ==
  IF Len(values) > 0 THEN toFixed2(SumNums(values), Len(values)) ELSE Null

QuestionResults(survey, question) ==
  CASE question.type = "text" ->
         [id |-> question.id, text |-> question.text, type |-> question.type,
          responses |-> TruthyOnly(AnswersOf(survey, question))]
    [] question.type \in {"single-choice", "multiple-choice"} ->
         [id |-> question.id, text |-> question.text, type |-> question.type,
          options |-> OptionResults(survey, question)]
    [] question.type = "scale" ->
         [id |-> question.id, text |-> question.text, type |-> question.type,
          values |-> ScaleValues(survey, question),
          average |-> ScaleAverage(ScaleValues(survey, question))]
    [] OTHER ->
         [id |-> question.id, text |-> question.text, type |-> question.type]

aggregate(survey) ==
  [surveyId |-> survey.id,
   title |-> survey.title,
   totalResponses |-> Len(survey.responses),
   questions |-> [i \in 1..Len(survey.questions) |->
                    QuestionResults(survey, survey.questions[i])]]

\* variant: the route empties the response list it has just reported
GetResultsDraining(surveyId, token) ==
  /\ req' = [op |-> "getResults", surveyId |-> surveyId, token |-> token]
  /\ UNCHANGED <<nextId, currentSurveyId, currentSurveyAdminToken, now>>
  /\ IF ~HasSurvey(surveyId)
     THEN /\ res' = [status |-> 404, body |-> [error |-> "Survey not found"]]
          /\ UNCHANGED surveys
     ELSE IF Truthy(token) /\ TokenMismatch(token, surveys[surveyId])
     THEN /\ res' = [status |-> 403, body |-> [error |-> "Unauthorized"]]
          /\ UNCHANGED surveys
     ELSE /\ res' = [status |-> 200, body |-> aggregate(surveys[surveyId])]
          /\ surveys' = [surveys EXCEPT ![surveyId].responses = <<>>]

\* GET /api/surveys/:surveyId/results
GetResults(surveyId, token) ==
  /\ req' = [op |-> "getResults", surveyId |-> surveyId, token |-> token]
  /\ UNCHANGED <<surveys, nextId, currentSurveyId, currentSurveyAdminToken, now>>
  /\ IF ~HasSurvey(surveyId)
     THEN res' = [status |-> 404, body |-> [error |-> "Survey not found"]]
     ELSE IF Truthy(token) /\ TokenMismatch(token, surveys[surveyId])
     THEN res' = [status |-> 403, body |-> [error |-> "Unauthorized"]]
     ELSE res' = [status |-> 200, body |-> aggregate(surveys[surveyId])]

(* ------------------------------ CSV export ----------------------------- *)

RECURSIVE EscapeQuotes(_)
\* .replace(/"/g, '""')
EscapeQuotes(s) ==
  IF Len(s) = 0 THEN <<>>
  ELSE (IF Head(s) = "\"" THEN <<"\"", "\"">> ELSE <<Head(s)>>) \o EscapeQuotes(Tail(s))

Quoted(s) == <<"\"">> \o EscapeQuotes(s) \o <<"\"">>

\* one cell: response.data[q.id] || '', arrays joined with '; ', String(value)
CsvCell(response, question) ==
  LET value == OrElse(Get(response.data, question.id.s), Str(<<>>))
  IN Quoted(ToChars(value, <<";", " ">>))

RECURSIVE CsvHeader(_)
CsvHeader(questions) ==
  IF Len(questions) = 0 THEN <<>>
  ELSE <<",">> \o Quoted(Head(questions).text.s) \o CsvHeader(Tail(questions))

RECURSIVE CsvCells(_, _)
CsvCells(response, questions) ==
  IF Len(questions) = 0 THEN <<>>
  ELSE <<",">> \o CsvCell(response, Head(questions)) \o CsvCells(response, Tail(questions))

RECURSIVE CsvRows(_, _)
CsvRows(responses, questions) ==
  IF Len(responses) = 0 THEN <<>>
  ELSE Quoted(Head(responses).id.s) \o <<",">>
       \o Quoted(IntToChars(Head(responses).submittedAt))
       \o CsvCells(Head(responses), questions) \o <<"\n">>
       \o CsvRows(Tail(responses), questions)

BuildCsv(survey) ==
  Quoted(<<"Response ID">>) \o <<",">> \o Quoted(<<"Submitted At">>)
  \o CsvHeader(survey.questions) \o <<"\n">>
  \o CsvRows(survey.responses, survey.questions)

\* GET /api/surveys/:surveyId/export/csv
ExportCsv(surveyId, token) ==
  /\ req' = [op |-> "exportCsv", surveyId |-> surveyId, token |-> token]
  /\ UNCHANGED <<surveys, nextId, currentSurveyId, currentSurveyAdminToken, now>>
  /\ IF ~HasSurvey(surveyId)
     THEN res' = [status |-> 404, body |-> [error |-> "Survey not found"]]
     ELSE IF TokenMismatch(token, surveys[surveyId])
     THEN res' = [status |-> 403, body |-> [error |-> "Unauthorized"]]
     ELSE res' = [status |-> 200,
                  body |-> [csv |-> BuildCsv(surveys[surveyId]),
                            filename |-> <<surveys[surveyId].id, "_results.csv">>]]

(* ---------------------------- other routes ----------------------------- *)

\* GET /api/health
Health ==
  /\ req' = [op |-> "health"]
  /\ res' = [status |-> 200, body |-> [status |-> "ok", surveys |-> Cardinality(DOMAIN surveys)]]
  /\ UNCHANGED <<surveys, nextId, currentSurveyId, currentSurveyAdminToken, now>>

\* GET /
Home ==
  /\ req' = [op |-> "home"]
  /\ UNCHANGED <<surveys, nextId, currentSurveyId, currentSurveyAdminToken, now>>
  /\ IF Truthy(currentSurveyId)
     THEN res' = [status |-> 200,
                  body |-> [page |-> "Survey Ready!",
                            clientLink |-> <<"/survey/", currentSurveyId>>,
                            adminLink |-> <<"/admin/", currentSurveyId, "?token=",
                                            currentSurveyAdminToken>>]]
     ELSE res' = [status |-> 200, body |-> [page |-> "Waiting for survey creation..."]]

(* ------------------------------- inputs -------------------------------- *)

NoOptions == <<>>

Opt(id, label) == [id |-> Str(id), label |-> Str(label)]

OptionsAB == <<Opt(<<"a">>, <<"A">>), Opt(<<"b">>, <<"B">>)>>

TextQuestion(id, text, required) ==
  [id |-> id, text |-> Str(text), type |-> "text", required |-> required,
   options |-> NoOptions, minValue |-> Undefined, maxValue |-> Undefined]

ChoiceQuestion(id, text, type, required) ==
  [id |-> id, text |-> Str(text), type |-> type, required |-> required,
   options |-> OptionsAB, minValue |-> Undefined, maxValue |-> Undefined]

ScaleQuestion(id, text, required, lo, hi) ==
  [id |-> id, text |-> Str(text), type |-> "scale", required |-> required,
   options |-> NoOptions, minValue |-> Num(lo), maxValue |-> Num(hi)]

\* outcomes of Math.random().toString(36).substring(2, 15)
RandomTokens == {Str(<<"k", "1">>)}

\* outcomes of Math.random().toString(36).substr(2, 9)
RandomSuffixes == {<<"x">>, <<"y">>}

\* the outcome the registry specification draws: the suffix of a response id
\* bears on no registry operation
SurveySuffixes == {<<"x">>}

\* ?token=...: absent, empty, a generated token, a guess
QueryTokens == {Undefined, Str(<<>>), Str(<<"k", "2">>)} \cup RandomTokens

\* the survey id the creator page writes into survey-data.js
PreloadedId == SurveyIdOf(7)

\* :surveyId of a request
SurveyIdParams == {SurveyIdOf(1).s, PreloadedId.s}

ListA ==
  <<ScaleQuestion(Undefined, <<"R">>, FALSE, 1, 5), TextQuestion(Undefined, <<"N">>, TRUE)>>

ListB ==
  <<ChoiceQuestion(Undefined, <<"C">>, "single-choice", FALSE),
    TextQuestion(Str(<<"t">>), <<"N">>, TRUE)>>

Payload(title, description, questions) ==
  [title |-> title, description |-> description, questions |-> questions]

\* well-formed create and update payloads
GoodPayloads ==
  { Payload(Str(<<"T", "1">>), Undefined, Arr(ListA)),
    Payload(Str(<<"T", "2">>), Str(<<"D">>), Arr(ListB)) }

\* payloads the create and update routes reject
BadPayloads ==
  { Payload(Undefined, Str(<<"D">>), Arr(ListA)),
    Payload(Str(<<"T", "1">>), Str(<<"D">>), Undefined),
    Payload(Str(<<"T", "1">>), Str(<<"D">>), Str(<<"x">>)),
    Payload(Str(<<"T", "1">>), Str(<<"D">>), Arr(<<>>)) }

SurveyPayloads == GoodPayloads \cup BadPayloads

Q0 == <<"q", "_", "0">>
Q1 == <<"q", "_", "1">>

\* an object with one or two keys
Obj1(k1, v1) == [k \in {k1} |-> v1]
Obj2(k1, v1, k2, v2) == [k \in {k1, k2} |-> IF k = k1 THEN v1 ELSE v2]
EmptyObj == [k \in {} |-> Undefined]

\* request bodies of the registry specification
SurveyBodies ==
  { EmptyObj,
    Obj2(Q0, Str(<<"3">>), Q1, Str(<<"h", "i">>)),
    Obj2(Q0, Str(<<"a">>), <<"t">>, Str(<<"h", "i">>)),
    Obj2(Q0, Num(9), Q1, Str(<<"h", "i">>)) }

\* update requests: every payload with the generated token, and a good and
\* a bad payload with every other token
UpdateRequests ==
  { [id |-> id, token |-> k, payload |-> p] :
      id \in SurveyIdParams, k \in RandomTokens, p \in SurveyPayloads }
  \cup
  { [id |-> id, token |-> k, payload |-> p] :
      id \in SurveyIdParams, k \in QueryTokens \ RandomTokens,
      p \in { Payload(Str(<<"T", "2">>), Str(<<"D">>), Arr(ListB)),
              Payload(Str(<<"T", "1">>), Str(<<"D">>), Arr(<<>>)) } }

(* --------------------------- specification ----------------------------- *)

\* the server starts with an empty store and no current survey
InitEmpty ==
  /\ surveys = [i \in {} |-> Undefined]
  /\ nextId = 1
  /\ currentSurveyId = Undefined
  /\ currentSurveyAdminToken = Undefined

\* initializeSurvey(require('./survey-data.js'))
initializeSurvey(surveyData) ==
  LET surveyId == surveyData.surveyId
      survey == NewSurvey(surveyId, surveyData.title, surveyData.description,
                          surveyData.questions, surveyData.adminToken, now)
  IN /\ surveys = [i \in {surveyId.s} |-> survey]
     /\ nextId = 1
     /\ currentSurveyId = surveyId
     /\ currentSurveyAdminToken = survey.adminToken

\* what the creator page writes: title, description, questions, surveyId,
\* adminToken
SurveyDataFiles ==
  { [title |-> p.title, description |-> Str(<<>>), questions |-> p.questions.a,
     surveyId |-> PreloadedId, adminToken |-> t] :
       p \in GoodPayloads, t \in RandomTokens }

InitRequest ==
  /\ req = [op |-> "start"]
  /\ res = [status |-> 0, body |-> [page |-> "none"]]

Init ==
  /\ now = 0
  /\ InitRequest
  /\ \/ InitEmpty
     \/ \E d \in SurveyDataFiles : initializeSurvey(d)

Next ==
  \/ Tick
  \/ \E p \in SurveyPayloads, k \in RandomTokens :
       CreateSurvey(p.title, p.description, p.questions, k)
  \/ \E r \in UpdateRequests :
       UpdateSurvey(r.id, r.token, r.payload.title, r.payload.description,
                    r.payload.questions)
  \/ \E id \in SurveyIdParams : GetSurvey(id)
  \/ \E id \in SurveyIdParams, k \in QueryTokens : GetAdmin(id, k)
  \/ \E id \in SurveyIdParams, b \in SurveyBodies, r \in SurveySuffixes :
       SubmitResponse(id, b, r)
  \/ \E id \in SurveyIdParams, k \in QueryTokens : GetResults(id, k)
  \/ \E id \in SurveyIdParams, k \in QueryTokens : ExportCsv(id, k)
  \/ Health
  \/ Home

Spec == Init /\ [][Next]_vars

(* ------------------------- registry properties ------------------------- *)

\* the step is the handling of a request of the given operation (Tick is
\* the only step that moves the clock, and every handler records its
\* operation in req)
IsStep(op) == now' = now /\ req'.op = op

\* everything a request may change besides req and res
StoreUnchanged ==
  UNCHANGED <<surveys, nextId, currentSurveyId, currentSurveyAdminToken>>

IsPrefix(a, b) == Len(a) <= Len(b) /\ \A i \in 1..Len(a) : a[i] = b[i]

\* C1. The process holds at most one survey; createSurvey while a survey
\* exists answers 409 AlreadyActive with the id of the existing survey and
\* changes neither the store nor the survey nor its responses.
SingleSurveyPerProcess ==
  /\ [](Cardinality(DOMAIN surveys) <= 1)
  /\ [][(IsStep("createSurvey") /\ DOMAIN surveys # {}) =>
          /\ res'.status = 409
          /\ res'.body.error = "A survey is already active in this environment"
          /\ \E id \in DOMAIN surveys : res'.body.surveyId = surveys[id].id
          /\ StoreUnchanged]_vars

\* a second createSurvey was rejected while the survey created by the first
\* one is held
SecondCreateRejected ==
  /\ req.op = "createSurvey"
  /\ res.status = 409
  /\ DOMAIN surveys = {SurveyIdOf(1).s}
  /\ res.body.surveyId = SurveyIdOf(1)

AdminOps == {"updateSurvey", "getAdminView", "exportCsv"}

\* C2. updateSurvey, getAdminView and the CSV export answer 404 for an
\* unknown survey whatever else is wrong, and 403 Unauthorized, with nothing
\* but the error and no change of state, when the token is missing or is not
\* the survey's adminToken, also when the update payload is malformed.
AdminOpsNeedToken ==
  [][\A op \in AdminOps :
       IsStep(op) =>
         /\ (req'.surveyId \notin DOMAIN surveys =>
               /\ res'.status = 404
               /\ StoreUnchanged)
         /\ (req'.surveyId \in DOMAIN surveys
             /\ req'.token # surveys[req'.surveyId].adminToken =>
               /\ res'.status = 403
               /\ res'.body = [error |-> "Unauthorized"]
               /\ StoreUnchanged)]_vars

\* an update with a malformed payload and no token was answered 403
MalformedUpdateUnauthorized ==
  /\ req.op = "updateSurvey"
  /\ req.surveyId \in DOMAIN surveys
  /\ req.token = Undefined
  /\ req.questions = Arr(<<>>)
  /\ res.status = 403

\* C3. The response store is append-only: across every step the responses
\* of a survey before the step are a prefix of its responses after it.
ResponsesAppendOnly ==
  [][\A id \in DOMAIN surveys :
       /\ id \in DOMAIN surveys'
       /\ IsPrefix(surveys[id].responses, surveys'[id].responses)]_vars

\* a response was appended behind an earlier one, on an updated survey
AppendedBehindEarlier ==
  /\ req.op = "submitResponse"
  /\ res.status = 200
  /\ \E id \in DOMAIN surveys :
       /\ Len(surveys[id].responses) = 2
       /\ surveys[id].updatedAt # NoTime

\* C4. submitResponse answers 404 for an unknown survey and changes nothing;
\* with violations it answers 400 carrying exactly the validator's list and
\* stores nothing; otherwise it appends one response holding the submitted
\* answers, returns its id, and totalResponses grows by one.
SubmitResponseContract ==
  [][IsStep("submitResponse") =>
       IF req'.surveyId \notin DOMAIN surveys
       THEN res'.status = 404 /\ StoreUnchanged
       ELSE LET survey == surveys[req'.surveyId]
                after == surveys'[req'.surveyId]
                violations == validateResponse(survey, req'.body)
            IN IF violations # <<>>
               THEN /\ res'.status = 400
                    /\ res'.body.errors = violations
                    /\ StoreUnchanged
               ELSE /\ res'.status = 200
                    /\ Len(after.responses) = Len(survey.responses) + 1
                    /\ SubSeq(after.responses, 1, Len(survey.responses)) = survey.responses
                    /\ after.responses[Len(after.responses)].data = req'.body
                    /\ res'.body.responseId = after.responses[Len(after.responses)].id
                    /\ aggregate(after).totalResponses
                         = aggregate(survey).totalResponses + 1]_vars

\* a submission was accepted and stored as the second response
SecondResponseStored ==
  /\ req.op = "submitResponse"
  /\ res.status = 200
  /\ \E id \in DOMAIN surveys :
       /\ Len(surveys[id].responses) = 2
       /\ surveys[id].responses[2].data = req.body
       /\ res.body.responseId = surveys[id].responses[2].id

\* the id question i of a payload ends up with
ExpectedQuestionId(q, i) ==
  IF q.id.k = "string" /\ q.id.s # <<>> THEN q.id ELSE Str(<<"q", "_">> \o IntToChars(i - 1))

\* C5. An authorized, well-formed updateSurvey replaces title, description
\* (the empty string when none is supplied) and questions by the supplied
\* ones, gives question i its supplied id or "q_" + index, stamps updatedAt,
\* and leaves id, adminToken, createdAt and the responses as they were.
UpdateReplacesSchemaOnly ==
  [][(/\ IsStep("updateSurvey")
      /\ req'.surveyId \in DOMAIN surveys
      /\ req'.token = surveys[req'.surveyId].adminToken
      /\ req'.title.k = "string" /\ req'.title.s # <<>>
      /\ req'.questions.k = "array" /\ req'.questions.a # <<>>) =>
       LET before == surveys[req'.surveyId]
           after == surveys'[req'.surveyId]
           sent == req'.questions.a
       IN /\ res'.status = 200
          /\ after.title = req'.title
          /\ after.description
               = (IF req'.description = Undefined THEN Str(<<>>) ELSE req'.description)
          /\ Len(after.questions) = Len(sent)
          /\ \A i \in 1..Len(sent) :
               /\ after.questions[i].id = ExpectedQuestionId(sent[i], i)
               /\ after.questions[i] = [sent[i] EXCEPT !.id = after.questions[i].id]
          /\ after.updatedAt = now
          /\ after.id = before.id
          /\ after.adminToken = before.adminToken
          /\ after.createdAt = before.createdAt
          /\ after.responses = before.responses
          /\ DOMAIN surveys' = DOMAIN surveys]_vars

\* an update went through on a survey that holds responses
UpdatedWithResponses ==
  /\ req.op = "updateSurvey"
  /\ res.status = 200
  /\ \E id \in DOMAIN surveys :
       /\ Len(surveys[id].responses) > 0
       /\ surveys[id].title = req.title
       /\ surveys[id].updatedAt > surveys[id].createdAt

\* C6. A survey's id and adminToken never change once it exists.
IdAndTokenImmutable ==
  [][\A id \in DOMAIN surveys :
       /\ id \in DOMAIN surveys'
       /\ surveys'[id].id = surveys[id].id
       /\ surveys'[id].adminToken = surveys[id].adminToken]_vars

\* a created survey that has since been updated, answered and had a second
\* creation attempted on it
SurvivedEveryOperation ==
  /\ req.op = "createSurvey"
  /\ res.status = 409
  /\ \E id \in DOMAIN surveys :
       /\ id = SurveyIdOf(1).s
       /\ surveys[id].updatedAt # NoTime
       /\ Len(surveys[id].responses) > 0

(* ---------------------- validation specification ---------------------- *)

\* a string of n characters
Filled(n) == Str([i \in 1..n |-> "x"])

\* one-question surveys of every type, required and not, and the survey of
\* one required text question followed by a scale from 1 to 5
ValidationLists ==
  { <<TextQuestion(Undefined, <<"N">>, r)>> : r \in BOOLEAN }
  \cup { <<ChoiceQuestion(Undefined, <<"C">>, t, r)>> :
           t \in {"single-choice", "multiple-choice"}, r \in BOOLEAN }
  \cup { <<ScaleQuestion(Undefined, <<"R">>, r, b[1], b[2])>> :
           r \in BOOLEAN, b \in {<<1, 5>>, <<0, 2>>} }
  \cup { <<TextQuestion(Undefined, <<"N">>, TRUE),
           ScaleQuestion(Undefined, <<"R">>, FALSE, 1, 5)>> }

\* answer values: empty ones, option ids declared and not, sequences of
\* them, numbers and numeric strings around the scale limits, strings that
\* are no numbers, and strings at and over the length limit
AnswerValues ==
  { Null, Str(<<>>), Arr(<<>>),
    Str(<<"a">>), Str(<<"z">>),
    Arr(<<Str(<<"a">>)>>), Arr(<<Str(<<"a">>), Str(<<"b">>)>>),
    Arr(<<Str(<<"a">>), Str(<<"z">>)>>),
    Num(0), Num(1), Num(2), Num(3), Num(5), Num(6), Num(0 - 1),
    Str(<<"0">>), Str(<<"1">>), Str(<<"2">>), Str(<<"3">>), Str(<<"5">>), Str(<<"6">>),
    Str(<<"-", "1">>), Str(<<"3", "x">>),
    Filled(MaxTextLength), Filled(MaxTextLength + 1) }

\* bodies: no key, one answer to the first question, and for the survey of
\* two questions an answer to each
ValidationBodies ==
  {EmptyObj}
  \cup {Obj1(Q0, v) : v \in AnswerValues}
  \cup {Obj2(Q0, v, Q1, w) : v \in {Str(<<"h", "i">>), Str(<<>>)},
                             w \in {Str(<<"3">>), Num(0), Str(<<"z">>)}}

ValidationDataFiles ==
  { [title |-> Str(<<"T", "1">>), description |-> Str(<<>>), questions |-> qs,
     surveyId |-> PreloadedId, adminToken |-> t] :
       qs \in ValidationLists, t \in RandomTokens }

InitValidation ==
  /\ now = 0
  /\ InitRequest
  /\ \E d \in ValidationDataFiles : initializeSurvey(d)

NextValidation ==
  \E b \in ValidationBodies, r \in SurveySuffixes : SubmitResponse(PreloadedId.s, b, r)

SpecValidation == InitValidation /\ [][NextValidation]_vars

(* ------------------------ validation properties ----------------------- *)

\* the last request was a submission that reached the validator
Validated ==
  /\ req.op = "submitResponse"
  /\ req.surveyId \in DOMAIN surveys
  /\ res.status \in {200, 400}

\* the violations the last submission was answered with
Violations == IF res.status = 400 THEN res.body.errors ELSE <<>>

\* those of them that name the text of question q
Naming(q) == SelectSeq(Violations, LAMBDA e : e.text = q.text)

\* the answer the last submission gives to question q
AnswerTo(q) == Get(req.body, q.id.s)

\* absent or empty, as the validator contract lists it: missing key,
\* null/undefined, empty string, empty sequence
EmptyAnswer(v) ==
  \/ v.k \in {"undefined", "null"}
  \/ v = Str(<<>>)
  \/ v = Arr(<<>>)

\* an optional minus sign followed by decimal digits and nothing else
IsIntegerText(s) ==
  LET body == IF Len(s) > 0 /\ Head(s) = "-" THEN Tail(s) ELSE s
  IN Len(body) > 0 /\ \A i \in 1..Len(body) : IsDigit(body[i])

IntegerTextValue(s) ==
  IF Head(s) = "-" THEN 0 - DigitsVal(Tail(s), 0) ELSE DigitsVal(s, 0)

\* the answer is an integer, given as a number or as a numeric string
IsIntegerAnswer(v) == v.k = "number" \/ (v.k = "string" /\ IsIntegerText(v.s))

IntegerAnswerValue(v) == IF v.k = "number" THEN v.n ELSE IntegerTextValue(v.s)

\* a string holding no digit at all
NonNumericString(v) == v.k = "string" /\ \A i \in 1..Len(v.s) : ~IsDigit(v.s[i])

\* v is the id of an option question q declares
Declared(q, v) == \E i \in 1..Len(q.options) : q.options[i].id = v

IsChoice(q) == q.type \in {"single-choice", "multiple-choice"}

\* C7. A required question whose answer is absent or empty (missing key,
\* null, empty string, empty sequence) gets exactly one violation, the
\* "is required" one, and no type check; an optional question missing from
\* the answer map gets none.
RequiredAnswerRule ==
  Validated =>
    \A i \in 1..Len(surveys[req.surveyId].questions) :
      LET q == surveys[req.surveyId].questions[i]
      IN /\ (q.required /\ EmptyAnswer(AnswerTo(q))) =>
              /\ Len(Naming(q)) = 1
              /\ Naming(q)[1].kind = "is required"
         /\ (~q.required /\ q.id.s \notin DOMAIN req.body) => Naming(q) = <<>>

\* C8. For a scale question with minValue <= maxValue and a present answer
\* given as a number or as a string: minValue and maxValue are accepted,
\* minValue - 1 and maxValue + 1 are rejected, and a string that is no
\* number is rejected.
ScaleLimitsRule ==
  Validated =>
    \A i \in 1..Len(surveys[req.surveyId].questions) :
      LET q == surveys[req.surveyId].questions[i]
          v == AnswerTo(q)
      IN (/\ q.type = "scale"
          /\ q.minValue.n <= q.maxValue.n
          /\ ~EmptyAnswer(v)) =>
           /\ (IsIntegerAnswer(v)
               /\ IntegerAnswerValue(v) \in {q.minValue.n, q.maxValue.n}) =>
                 Naming(q) = <<>>
           /\ (IsIntegerAnswer(v)
               /\ IntegerAnswerValue(v) \in {q.minValue.n - 1, q.maxValue.n + 1}) =>
                 Naming(q) # <<>>
           /\ NonNumericString(v) => Naming(q) # <<>>

\* C9. For a choice question and a present answer: a scalar that is no
\* declared option id, or a sequence holding one, is rejected; a declared
\* option id or a sequence of declared option ids is accepted, for a
\* single-choice question too.
ChoiceOptionRule ==
  Validated =>
    \A i \in 1..Len(surveys[req.surveyId].questions) :
      LET q == surveys[req.surveyId].questions[i]
          v == AnswerTo(q)
      IN (IsChoice(q) /\ ~EmptyAnswer(v)) =>
           /\ (v.k \in {"string", "number"} /\ ~Declared(q, v)) => Naming(q) # <<>>
           /\ (v.k = "array" /\ \E j \in 1..Len(v.a) : ~Declared(q, v.a[j])) =>
                Naming(q) # <<>>
           /\ (v.k \in {"string", "number"} /\ Declared(q, v)) => Naming(q) = <<>>
           /\ (v.k = "array" /\ \A j \in 1..Len(v.a) : Declared(q, v.a[j])) =>
                Naming(q) = <<>>

\* the answer v meets the constraints of question q: an optional question
\* may go unanswered; a text answer is a string of at most 5000 characters;
\* a choice answer is a declared option id or a sequence of them; a scale
\* answer is an integer within the limits, as a number or a numeric string
Satisfies(q, v) ==
  IF EmptyAnswer(v) THEN ~q.required
  ELSE CASE q.type = "text" -> v.k = "string" /\ Len(v.s) <= MaxTextLength
         [] IsChoice(q) ->
              \/ v.k = "string" /\ Declared(q, v)
              \/ v.k = "array" /\ \A j \in 1..Len(v.a) : Declared(q, v.a[j])
         [] q.type = "scale" ->
              /\ IsIntegerAnswer(v)
              /\ IntegerAnswerValue(v) >= q.minValue.n
              /\ IntegerAnswerValue(v) <= q.maxValue.n
         [] OTHER -> TRUE

\* C10. An answer set in which every question's answer meets its
\* constraints and every required question is answered has no violation,
\* and its submission succeeds.
ValidAnswersAccepted ==
  (/\ Validated
   /\ \A i \in 1..Len(surveys[req.surveyId].questions) :
        Satisfies(surveys[req.surveyId].questions[i],
                  AnswerTo(surveys[req.surveyId].questions[i]))) =>
    /\ res.status = 200
    /\ Violations = <<>>

(* ------------------------- results properties -------------------------- *)

\* the results of every held survey are the same before and after the step
ResultsPreserved ==
  \/ surveys' = surveys
  \/ \A id \in DOMAIN surveys :
       /\ id \in DOMAIN surveys'
       /\ aggregate(surveys'[id]) = aggregate(surveys[id])

SchemaIds == {Undefined, Str(<<>>), Str(Q0), Str(Q1), Str(<<"a">>)}

\* question lists of one or two questions over these ids
SchemaLists ==
  { <<TextQuestion(i, <<"N">>, FALSE)>> : i \in SchemaIds }
  \cup
  { <<TextQuestion(i, <<"N">>, FALSE), TextQuestion(j, <<"M">>, FALSE)>> :
      i \in SchemaIds, j \in SchemaIds }

SchemaPayloads == { Payload(Str(<<"T", "1">>), Undefined, Arr(l)) : l \in SchemaLists }

InitSchema ==
  /\ now = 0
  /\ InitRequest
  /\ \/ InitEmpty
     \/ \E d \in SurveyDataFiles : initializeSurvey(d)

NextSchema ==
  \/ Tick
  \/ \E p \in SchemaPayloads, k \in RandomTokens :
       CreateSurvey(p.title, p.description, p.questions, k)
  \/ \E id \in SurveyIdParams, p \in SchemaPayloads, k \in RandomTokens :
       UpdateSurvey(id, k, p.title, p.description, p.questions)
  \/ \E id \in SurveyIdParams : GetSurvey(id)

SpecSchema == InitSchema /\ [][NextSchema]_vars

\* the survey a successful create or update request has just written
WrittenSurvey ==
  IF req.op = "createSurvey" THEN surveys[res.body.id.s] ELSE surveys[req.surveyId]

\* C12. Every question of every stored survey has a non-empty id, no two
\* questions of one survey share an id, and after an accepted createSurvey or
\* updateSurvey a question sent without an id holds "q_" + its index.
QuestionIdsUnique ==
  /\ \A id \in DOMAIN surveys :
       LET qs == surveys[id].questions
       IN /\ \A i \in 1..Len(qs) : qs[i].id.k = "string" /\ qs[i].id.s # <<>>
          /\ \A i \in 1..Len(qs), j \in 1..Len(qs) : i # j => qs[i].id # qs[j].id
  /\ (req.op \in {"createSurvey", "updateSurvey"} /\ res.status = 200) =>
       LET sent == req.questions.a
           qs == WrittenSurvey.questions
       IN /\ Len(qs) = Len(sent)
          /\ \A i \in 1..Len(sent) :
               sent[i].id = Undefined => qs[i].id = Str(<<"q", "_">> \o IntToChars(i - 1))

(* --------------------- response id specification ---------------------- *)

\* a preloaded survey that receives submissions while the clock moves
InitIds ==
  /\ now = 0
  /\ InitRequest
  /\ \E d \in SurveyDataFiles : initializeSurvey(d)

NextIds ==
  \/ Tick
  \/ \E id \in SurveyIdParams, b \in SurveyBodies, r \in RandomSuffixes :
       SubmitResponse(id, b, r)
  \/ \E id \in SurveyIdParams, k \in QueryTokens : GetAdmin(id, k)

SpecIds == InitIds /\ [][NextIds]_vars

\* C13. The ids of the responses stored for a survey are pairwise distinct.
ResponseIdsDistinct ==
  \A id \in DOMAIN surveys :
    LET rs == surveys[id].responses
    IN \A i \in 1..Len(rs), j \in 1..Len(rs) : i # j => rs[i].id # rs[j].id

(* ----------------------- results specification ------------------------ *)

\* a survey of one optional scale question from 1 to 6, and a survey of one
\* optional multiple-choice question
ResultsLists ==
  { <<ScaleQuestion(Undefined, <<"R">>, FALSE, 1, 6)>>,
    <<ChoiceQuestion(Undefined, <<"C">>, "multiple-choice", FALSE)>> }

\* answers to the one question: numbers and numeric strings, a string with
\* a numeric head, a string that is no number, option ids and sequences of
\* them, one with a repeated element
ResultsAnswers ==
  { Num(0), Num(1), Num(2), Str(<<"4">>), Num(6), Str(<<"3", "x">>), Str(<<"z">>),
    Str(<<"a">>), Str(<<"b">>),
    Arr(<<Str(<<"a">>), Str(<<"b">>)>>), Arr(<<Str(<<"a">>), Str(<<"a">>)>>) }

ResultsBodies == {EmptyObj} \cup {Obj1(Q0, v) : v \in ResultsAnswers}

ResultsDataFiles ==
  { [title |-> Str(<<"T", "1">>), description |-> Str(<<>>), questions |-> qs,
     surveyId |-> PreloadedId, adminToken |-> t] :
       qs \in ResultsLists, t \in RandomTokens }

InitResults ==
  /\ now = 0
  /\ InitRequest
  /\ \E d \in ResultsDataFiles : initializeSurvey(d)

NextResults ==
  \/ \E b \in ResultsBodies, r \in SurveySuffixes :
       SubmitResponseWithin(PreloadedId.s, b, r, MaxResultResponses)
  \/ GetResults(PreloadedId.s, Undefined)

SpecResults == InitResults /\ [][NextResults]_vars

\* the last request was a successful getResults
ResultsRead ==
  /\ req.op = "getResults"
  /\ res.status = 200

\* the stored answers to question q, in submission order
StoredAnswers(survey, q) ==
  [r \in 1..Len(survey.responses) |-> Get(survey.responses[r].data, q.id.s)]

\* the answer holds the option id: it is the id, or a sequence with the id
\* among its elements
HoldsOption(answer, optId) ==
  \/ answer = optId
  \/ answer.k = "array" /\ \E j \in 1..Len(answer.a) : answer.a[j] = optId

\* C14. For every choice question getResults reports one entry per declared
\* option, in declaration order, whose count is the number of stored
\* responses whose answer holds that option id; no count exceeds
\* totalResponses and undeclared option ids add no entry.
ChoiceCountsAreResponseCounts ==
  ResultsRead =>
    LET survey == surveys[req.surveyId]
    IN \A i \in 1..Len(survey.questions) :
         LET q == survey.questions[i]
             reported == res.body.questions[i]
         IN IsChoice(q) =>
              /\ Len(reported.options) = Len(q.options)
              /\ \A o \in 1..Len(q.options) :
                   /\ reported.options[o].id = q.options[o].id
                   /\ reported.options[o].count
                        = Cardinality({r \in 1..Len(survey.responses) :
                                         HoldsOption(StoredAnswers(survey, q)[r],
                                                     q.options[o].id)})
                   /\ reported.options[o].count <= res.body.totalResponses

\* the answer starts with an integer: a number, or a string that opens with
\* an optional minus sign and at least one decimal digit
ParsesAsInteger(v) ==
  \/ v.k = "number"
  \/ v.k = "string" /\ \E n \in 1..Len(v.s) : IsIntegerText(SubSeq(v.s, 1, n))

\* that integer: the longest such opening of the string
ParsedValue(v) ==
  IF v.k = "number" THEN v.n
  ELSE LET n == CHOOSE m \in 1..Len(v.s) :
                  /\ IsIntegerText(SubSeq(v.s, 1, m))
                  /\ \A l \in (m + 1)..Len(v.s) : ~IsIntegerText(SubSeq(v.s, 1, l))
       IN IntegerTextValue(SubSeq(v.s, 1, n))

RECURSIVE ParsedIntegers(_)
\* the integers of the answers that start with one, in the order of the answers
ParsedIntegers(answers) ==
  IF Len(answers) = 0 THEN <<>>
  ELSE (IF ParsesAsInteger(Head(answers)) THEN <<Num(ParsedValue(Head(answers)))>>
        ELSE <<>>) \o ParsedIntegers(Tail(answers))

RECURSIVE Total(_)
Total(values) == IF Len(values) = 0 THEN 0 ELSE Head(values).n + Total(Tail(values))

\* digits, a point, two digits
IsTwoDecimals(s) ==
  /\ Len(s) >= 4
  /\ s[Len(s) - 2] = "."
  /\ \A i \in 1..Len(s) : i # Len(s) - 2 => IsDigit(s[i])

\* the number of hundredths such a text denotes
Hundredths(s) ==
  100 * DigitsVal(SubSeq(s, 1, Len(s) - 3), 0)
    + 10 * DigitVal(s[Len(s) - 1]) + DigitVal(s[Len(s)])

Distance(a, b) == IF a < b THEN b - a ELSE a - b

\* C15. For every scale question getResults reports as values the integers
\* of the stored answers that parse as one, in submission order, and as
\* average null when there is none, otherwise a two-decimal text that is a
\* nearest hundredth to their arithmetic mean.
ScaleValuesAndAverage ==
  ResultsRead =>
    LET survey == surveys[req.surveyId]
    IN \A i \in 1..Len(survey.questions) :
         LET q == survey.questions[i]
             reported == res.body.questions[i]
             values == ParsedIntegers(StoredAnswers(survey, q))
             n == Len(values)
         IN q.type = "scale" =>
              /\ reported.values = values
              /\ n = 0 => reported.average = Null
              /\ n > 0 =>
                   /\ reported.average.k = "string"
                   /\ IsTwoDecimals(reported.average.s)
                   /\ 2 * Distance(100 * Total(values), n * Hundredths(reported.average.s))
                        <= n

\* results read for the stored answers 1, 2, 2, whose mean 1.666... is
\* rounded up
ScaleAverageRounded ==
  /\ ResultsRead
  /\ res.body.questions[1].type = "scale"
  /\ res.body.questions[1].values = <<Num(1), Num(2), Num(2)>>
  /\ res.body.questions[1].average = Str(<<"1", ".", "6", "7">>)

(* ------------------------- disclosure properties ----------------------- *)

\* C16. getResults on an unknown survey id answers NotFound whatever the
\* token; on an existing survey it succeeds when no token is supplied or
\* the supplied token is the survey's adminToken, and answers Unauthorized
\* for every supplied token that differs from it.
ResultsTokenRule ==
  [][IsStep("getResults") =>
       IF req'.surveyId \notin DOMAIN surveys THEN res'.status = 404
       ELSE IF req'.token = Undefined
               \/ req'.token = surveys[req'.surveyId].adminToken
       THEN res'.status = 200
       ELSE res'.status = 403]_vars

(* --------------------------- text properties --------------------------- *)

\* C18. For a text question and a present answer: a value that is no
\* string is rejected, a string of more than 5000 characters is rejected,
\* and a string of 1 to 5000 characters is accepted.
TextAnswerRule ==
  Validated =>
    \A i \in 1..Len(surveys[req.surveyId].questions) :
      LET q == surveys[req.surveyId].questions[i]
          v == AnswerTo(q)
      IN (q.type = "text" /\ ~EmptyAnswer(v)) =>
           /\ v.k # "string" => Naming(q) # <<>>
           /\ (v.k = "string" /\ Len(v.s) > MaxTextLength) => Naming(q) # <<>>
           /\ (v.k = "string" /\ Len(v.s) >= 1 /\ Len(v.s) <= MaxTextLength) =>
                Naming(q) = <<>>

(* ------------------------ stored-data properties ----------------------- *)

\* every stored response of the survey passes the validator against the
\* survey's present question list
StoredResponsesValid(survey) ==
  \A r \in 1..Len(survey.responses) :
    validateResponse(survey, survey.responses[r].data) = <<>>

\* every value the aggregator reports for a scale question of the survey
\* lies within that question's limits
ScaleValuesWithinLimits(survey) ==
  \A i \in 1..Len(survey.questions) :
    LET q == survey.questions[i]
        values == aggregate(survey).questions[i].values
    IN q.type = "scale" =>
         \A j \in 1..Len(values) :
           values[j].n >= q.minValue.n /\ values[j].n <= q.maxValue.n

\* C19 as stated. In every reachable state every stored response passes
\* validate against the survey's current question list, and every value
\* getResults reports for a scale question lies within the question's
\* current limits, updates of the questions included.
StoredResponsesStayValid ==
  \A id \in DOMAIN surveys :
    /\ StoredResponsesValid(surveys[id])
    /\ ScaleValuesWithinLimits(surveys[id])

\* C19 as amended. Every stored response of a survey whose questions were
\* never updated passes validate against the survey's question list.
StoredResponsesValidUntilUpdate ==
  \A id \in DOMAIN surveys :
    surveys[id].updatedAt = NoTime => StoredResponsesValid(surveys[id])

\* a survey never updated that holds two responses
TwoResponsesNoUpdate ==
  \E id \in DOMAIN surveys :
    /\ surveys[id].updatedAt = NoTime
    /\ Len(surveys[id].responses) = 2

\* the response body carries the token: as a field of its own or inside the
\* admin link it spells out
TokenIn(body, token) ==
  \/ "adminToken" \in DOMAIN body /\ body.adminToken = token
  \/ "adminUrl" \in DOMAIN body /\ body.adminUrl[4] = token
  \/ "adminLink" \in DOMAIN body /\ body.adminLink[4] = token

\* C20. The output of an operation contains a survey's adminToken only if
\* the operation is the successful createSurvey or the caller supplied the
\* matching token; the public view contains neither adminToken nor
\* responses.
AdminTokenOnlyToHolder ==
  /\ \A id \in DOMAIN surveys :
       TokenIn(res.body, surveys[id].adminToken) =>
         \/ req.op = "createSurvey" /\ res.status = 200
         \/ "token" \in DOMAIN req /\ req.token = surveys[id].adminToken
  /\ (req.op = "getPublicView" /\ res.status = 200) =>
       /\ "adminToken" \notin DOMAIN res.body
       /\ "responses" \notin DOMAIN res.body

(* ---------------------- concurrency specification --------------------- *)

\* In this specification a mutating handler runs statement by statement;
\* req.pc names the statement it executes next.

\* a handler has started and has not answered yet
Running == "pc" \in DOMAIN req

\* variant: a handler gives the event loop back between two statements
LoopIdleAlways == TRUE

\* the event loop hands a request to its handler only when no handler is
\* running: the route handlers are synchronous functions, with no await and
\* no callback between their statements
LoopIdle == ~Running

\* no answer sent yet
Pending == [status |-> 0, body |-> [page |-> "none"]]

\* POST /api/surveys up to the construction of the survey object
CreateBegin(title, description, questions, token) ==
  /\ LoopIdle
  /\ IF ~SurveyActive /\ ~InvalidSurveyData(title, questions)
     THEN /\ req' = [op |-> "createSurvey", title |-> title,
                     description |-> description, questions |-> questions,
                     pc |-> "store",
                     survey |-> NewSurvey(SurveyIdOf(nextId), title, description,
                                          questions.a, token, now)]
          /\ nextId' = nextId + 1
          /\ res' = Pending
          /\ UNCHANGED <<surveys, currentSurveyId, currentSurveyAdminToken, now>>
     ELSE CreateSurvey(title, description, questions, token)

\* the statements of POST /api/surveys from store.surveys[surveyId] = survey
CreateStep ==
  /\ Running
  /\ req.op = "createSurvey"
  /\ UNCHANGED <<nextId, now>>
  /\ CASE req.pc = "store" ->
            /\ surveys' = PutSurvey(req.survey.id.s, req.survey)
            /\ req' = [req EXCEPT !.pc = "currentSurveyId"]
            /\ UNCHANGED <<currentSurveyId, currentSurveyAdminToken, res>>
       [] req.pc = "currentSurveyId" ->
            /\ currentSurveyId' = req.survey.id
            /\ req' = [req EXCEPT !.pc = "currentSurveyAdminToken"]
            /\ UNCHANGED <<surveys, currentSurveyAdminToken, res>>
       [] req.pc = "currentSurveyAdminToken" ->
            /\ currentSurveyAdminToken' = req.survey.adminToken
            /\ req' = [req EXCEPT !.pc = "respond"]
            /\ UNCHANGED <<surveys, currentSurveyId, res>>
       [] req.pc = "respond" ->
            /\ res' = [status |-> 200,
                       body |-> [id |-> req.survey.id,
                                 adminToken |-> req.survey.adminToken,
                                 clientUrl |-> <<"/survey/", req.survey.id>>,
                                 adminUrl |-> <<"/admin/", req.survey.id, "?token=",
                                                req.survey.adminToken>>]]
            /\ req' = [op |-> "createSurvey", title |-> req.title,
                       description |-> req.description, questions |-> req.questions]
            /\ UNCHANGED <<surveys, currentSurveyId, currentSurveyAdminToken>>

\* PUT /api/surveys/:surveyId up to its first assignment
UpdateBegin(surveyId, token, title, description, questions) ==
  /\ LoopIdle
  /\ IF /\ HasSurvey(surveyId)
        /\ ~TokenMismatch(token, surveys[surveyId])
        /\ ~InvalidSurveyData(title, questions)
     THEN /\ req' = [op |-> "updateSurvey", surveyId |-> surveyId, token |-> token,
                     title |-> title, description |-> description,
                     questions |-> questions, pc |-> "title"]
          /\ res' = Pending
          /\ UNCHANGED <<surveys, nextId, currentSurveyId, currentSurveyAdminToken, now>>
     ELSE UpdateSurvey(surveyId, token, title, description, questions)

\* the assignments of PUT /api/surveys/:surveyId, one at a time, and its answer
UpdateStep ==
  /\ Running
  /\ req.op = "updateSurvey"
  /\ UNCHANGED <<nextId, currentSurveyId, currentSurveyAdminToken, now>>
  /\ CASE req.pc = "title" ->
            /\ surveys' = [surveys EXCEPT ![req.surveyId].title = req.title]
            /\ req' = [req EXCEPT !.pc = "description"]
            /\ UNCHANGED res
       [] req.pc = "description" ->
            /\ surveys' = [surveys EXCEPT ![req.surveyId].description
                                            = OrElse(req.description, Str(<<>>))]
            /\ req' = [req EXCEPT !.pc = "questions"]
            /\ UNCHANGED res
       [] req.pc = "questions" ->
            /\ surveys' = [surveys EXCEPT ![req.surveyId].questions
                                            = AssignQuestionIds(req.questions.a)]
            /\ req' = [req EXCEPT !.pc = "updatedAt"]
            /\ UNCHANGED res
       [] req.pc = "updatedAt" ->
            /\ surveys' = [surveys EXCEPT ![req.surveyId].updatedAt = now]
            /\ req' = [req EXCEPT !.pc = "respond"]
            /\ UNCHANGED res
       [] req.pc = "respond" ->
            /\ res' = [status |-> 200,
                       body |-> [success |-> TRUE,
                                 message |-> "Survey updated successfully",
                                 survey |-> [id |-> surveys[req.surveyId].id,
                                             title |-> surveys[req.surveyId].title,
                                             description |-> surveys[req.surveyId].description,
                                             questions |-> surveys[req.surveyId].questions]]]
            /\ req' = [op |-> "updateSurvey", surveyId |-> req.surveyId,
                       token |-> req.token, title |-> req.title,
                       description |-> req.description, questions |-> req.questions]
            /\ UNCHANGED surveys

\* POST /api/surveys/:surveyId/responses up to the construction of the
\* response object
SubmitBegin(surveyId, body, rnd) ==
  /\ LoopIdle
  /\ IF HasSurvey(surveyId) /\ ~HasErrors(validateResponse(surveys[surveyId], body))
     THEN /\ Len(surveys[surveyId].responses) < MaxResponses
          /\ req' = [op |-> "submitResponse", surveyId |-> surveyId, body |-> body,
                     pc |-> "push",
                     response |-> [id |-> ResponseIdOf(now, rnd), data |-> body,
                                   submittedAt |-> now]]
          /\ res' = Pending
          /\ UNCHANGED <<surveys, nextId, currentSurveyId, currentSurveyAdminToken, now>>
     ELSE SubmitResponse(surveyId, body, rnd)

\* survey.responses.push(response), then the answer
SubmitStep ==
  /\ Running
  /\ req.op = "submitResponse"
  /\ UNCHANGED <<nextId, currentSurveyId, currentSurveyAdminToken, now>>
  /\ CASE req.pc = "push" ->
            /\ surveys' = [surveys EXCEPT
                             ![req.surveyId].responses = PushResponse(@, req.response)]
            /\ req' = [req EXCEPT !.pc = "respond"]
            /\ UNCHANGED res
       [] req.pc = "respond" ->
            /\ res' = [status |-> 200,
                       body |-> [success |-> TRUE, responseId |-> req.response.id]]
            /\ req' = [op |-> "submitResponse", surveyId |-> req.surveyId,
                       body |-> req.body]
            /\ UNCHANGED surveys

\* the read handlers, which run in one piece
GetSurveyWhenIdle(surveyId) == LoopIdle /\ GetSurvey(surveyId)

GetAdminWhenIdle(surveyId, token) == LoopIdle /\ GetAdmin(surveyId, token)

GetResultsWhenIdle(surveyId, token) == LoopIdle /\ GetResults(surveyId, token)

InitConcurrent ==
  /\ now = 0
  /\ InitRequest
  /\ \/ InitEmpty
     \/ \E d \in SurveyDataFiles : initializeSurvey(d)

NextConcurrent ==
  \/ Tick
  \/ \E p \in GoodPayloads, k \in RandomTokens :
       CreateBegin(p.title, p.description, p.questions, k)
  \/ CreateStep
  \/ \E id \in SurveyIdParams, p \in GoodPayloads, k \in RandomTokens :
       UpdateBegin(id, k, p.title, p.description, p.questions)
  \/ UpdateStep
  \/ \E id \in SurveyIdParams, b \in SurveyBodies, r \in SurveySuffixes :
       SubmitBegin(id, b, r)
  \/ SubmitStep
  \/ \E id \in SurveyIdParams : GetSurveyWhenIdle(id)
  \/ \E id \in SurveyIdParams, k \in RandomTokens : GetAdminWhenIdle(id, k)
  \/ \E id \in SurveyIdParams : GetResultsWhenIdle(id, Undefined)

SpecConcurrent == InitConcurrent /\ [][NextConcurrent]_vars

(* ------------------------ concurrency properties ----------------------- *)

\* title, description and questions of the survey all come from one
\* payload: the description is the payload's, or the empty one the creator
\* page writes while the preloaded survey has not been updated
WholeSurvey(s) ==
  \E p \in GoodPayloads :
    /\ s.title = p.title
    /\ Len(s.questions) = Len(p.questions.a)
    /\ \A i \in 1..Len(s.questions) :
         /\ s.questions[i].text = p.questions.a[i].text
         /\ s.questions[i].type = p.questions.a[i].type
    /\ s.description = (IF s.id = PreloadedId /\ s.updatedAt = NoTime THEN Str(<<>>)
                        ELSE IF p.description = Undefined THEN Str(<<>>)
                        ELSE p.description)
    /\ \A r \in 1..Len(s.responses) :
         DOMAIN s.responses[r] = {"id", "data", "submittedAt"}

====
